---- MODULE Spec2Model ----
(***************************************************************************)
(* Landslide-Warning: the two Streamlit programs of the repository,        *)
(*   src/backtest_wayanad.py  (historical forensic backtest, "backtest")   *)
(*   src/hill_safe.py         (live dashboard, "hill_safe")                *)
(* Each run of main() establishes the Earth Engine session, calls three    *)
(* adapters (rain, Sentinel-1 radar, SMAP soil), evaluates the threshold   *)
(* rules, classifies by the number of triggered factors and renders.       *)
(*                                                                         *)
(* Numbers.  Python values are records that keep their Python type:        *)
(*   [t |-> "float", v |-> n]   a float;   [t |-> "int", v |-> n]  an int  *)
(*   [t |-> "NoneType"]         None                                       *)
(*   [t |-> "float", nan |-> TRUE]   NaN (pandas max of an empty series)   *)
(* Radar scores and soil moisture are counted in hundredths (2.0 is 200,   *)
(* 0.4 is 40); rain totals are in mm and probabilities in percent.         *)
(***************************************************************************)
EXTENDS Integers, Sequences, FiniteSets, TLC

VARIABLES
    prog,             \* which program runs: "backtest" or "hill_safe"
    pc,               \* position of main()
    crash,            \* the unhandled exception that ended main(), or "none"
    connected,        \* result of initialize_earth_engine(): "unset", TRUE, FALSE
    st_errors,        \* the st.error(...) reports made so far (set of tags)
    rain_total,       \* rain_total / rain_forecast
    rain_peak,        \* rain_peak / rain_chance
    rain_df,          \* the returned DataFrame: "unset", "no_columns", "empty", "rows"
    sentinel_status, sentinel_score, sentinel_date,
    smap_status, smap_score, smap_date,
    risk_factors,     \* reasons / risk_factors, in append order
    risk_level,       \* alert_level / risk_level, "unset" before the classifier
    rendered,         \* what the page showed of the assessment (set of tags)
    trace             \* per adapter: how its call went (history of the run)

vars == << prog, pc, crash, connected, st_errors, rain_total, rain_peak, rain_df,
           sentinel_status, sentinel_score, sentinel_date,
           smap_status, smap_score, smap_date,
           risk_factors, risk_level, rendered, trace >>

-----------------------------------------------------------------------------
(* Python values *)

Float(n) == [t |-> "float", v |-> n]
PyInt(n) == [t |-> "int", v |-> n]
None == [t |-> "NoneType"]
NaN == [t |-> "float", nan |-> TRUE]
\* a name that is not bound yet
Unset == [t |-> "unset"]

IsNone(x) == x = None
IsNumber(x) == DOMAIN x = {"t", "v"}

\* isinstance(x, float)
IsInstanceFloat(x) == x.t = "float"

\* x > c for a number threshold c.  None > c raises TypeError; NaN > c is False.
GtRaises(x) == IsNone(x)
Gt(x, c) == IsNumber(x) /\ x.v > c

\* f"{x:.2f}" and the like: formatting None raises TypeError.
FormatRaises(x) == IsNone(x)

-----------------------------------------------------------------------------
(* Thresholds of the rules *)

RadarThreshold == 200
SoilThreshold == 40
RainThreshold == 200
ForecastThreshold == 80
ChanceThreshold == 90

(* Bounds of the model *)

MaxCount == 3

\* what the outside world can answer
Counts == 0..MaxCount
RadarValues == {Float(50), Float(RadarThreshold), Float(RadarThreshold + 1), Float(310)}
SoilValues == {Float(20), Float(SoilThreshold), Float(SoilThreshold + 1), Float(55)}
RainTotals == {Float(0), Float(50), Float(ForecastThreshold), Float(ForecastThreshold + 5),
               Float(RainThreshold), Float(RainThreshold + 10)}
RainPeaks == {Float(0), Float(40)}
RainChances == {PyInt(0), PyInt(ChanceThreshold), PyInt(ChanceThreshold + 5)}
\* reduceRegion(...).getInfo() holds the band with a number, or with None when
\* no unmasked pixel lies in the region
RadarReductions == RadarValues \cup {None}
SoilReductions == SoilValues \cup {None}

Programs == {"backtest", "hill_safe"}
Sources == {"rain", "sentinel", "smap"}

-----------------------------------------------------------------------------
(* initialize_earth_engine: ee.Initialize, and on failure ee.Authenticate    *)
(* followed by a second ee.Initialize.  i1, auth, i2 tell whether each call  *)
(* succeeds.  The result is [ok, reported]: the returned boolean and whether *)
(* st.error was called.                                                      *)

initialize_earth_engine(i1, auth, i2) ==
    IF i1 THEN [ok |-> TRUE, reported |-> FALSE]
    ELSE IF auth /\ i2 THEN [ok |-> TRUE, reported |-> FALSE]
    ELSE [ok |-> FALSE, reported |-> TRUE]

-----------------------------------------------------------------------------
(* Adapters.  Every adapter is a sequence of steps inside one try block; the *)
(* input `fail` names the step that raises ("none": no step raises), `try`   *)
(* is the set of steps the try block encloses.  A step that raises inside    *)
(* the try block leads to the except branch; outside, the exception escapes. *)
(* Results carry the returned tuple and how the call went:                   *)
(*   raised   the step that raised, "none" when none was reached or raised   *)
(*   escaped  the exception left the adapter                                 *)
(*   outcome  "OK", "NO_DATA" or "ERROR"                                      *)

NoFail == "none"

\* the step `fail` raises when the adapter gets as far as one of `steps`
Raises(fail, steps) == fail \in steps

RainResult(total, peak, df, raised, escaped, outcome) ==
    [total |-> total, peak |-> peak, df |-> df,
     raised |-> raised, escaped |-> escaped, reported |-> (raised # NoFail /\ ~escaped),
     outcome |-> outcome]

\* except Exception: st.error(...); return 0, 0, pd.DataFrame()
RainExcept(try, fail) ==
    RainResult(PyInt(0), PyInt(0), "no_columns", fail, fail \notin try, "ERROR")

\* backtest: get_historical_rain
BT_RainSteps == {"request", "json", "hourly", "time", "rain"}

BT_RainBody(try, fail, series, total, peak) ==
    IF Raises(fail, BT_RainSteps) THEN RainExcept(try, fail)
    ELSE IF series = "empty"
         THEN RainResult(Float(0), NaN, "empty", NoFail, FALSE, "NO_DATA")
         ELSE RainResult(total, peak, "rows", NoFail, FALSE, "OK")

get_historical_rain(fail, series, total, peak) ==
    BT_RainBody(BT_RainSteps, fail, series, total, peak)

\* hill_safe: get_rainfall_data
HS_RainSteps == {"request", "json", "hourly", "time", "rain", "precipitation_probability"}

HS_RainBody(try, fail, series, total, chance) ==
    IF Raises(fail, HS_RainSteps) THEN RainExcept(try, fail)
    ELSE IF series = "empty"
         THEN RainResult(Float(0), NaN, "empty", NoFail, FALSE, "NO_DATA")
         ELSE RainResult(total, chance, "rows", NoFail, FALSE, "OK")

get_rainfall_data(fail, series, total, chance) ==
    HS_RainBody(HS_RainSteps, fail, series, total, chance)

\* radar and soil results; for the radar, recent and baseline count the
\* acquisitions the two composites of the change score were built from (0 when
\* none was built)
SatResult(status, score, date, raised, escaped, outcome, recent, baseline) ==
    [status |-> status, score |-> score, date |-> date,
     raised |-> raised, escaped |-> escaped, outcome |-> outcome,
     recent |-> recent, baseline |-> baseline]

\* what the archive held when the adapter was called: the sizes of the
\* collections behind the recent and the baseline composite, and the value the
\* region reduction yields
World(r, sizes, red) ==
    [status |-> r.status, score |-> r.score, date |-> r.date,
     raised |-> r.raised, escaped |-> r.escaped, outcome |-> r.outcome,
     recent |-> r.recent, baseline |-> r.baseline,
     sizes |-> sizes, reduced |-> IF r.outcome = "OK" THEN red ELSE Unset]

\* backtest: get_sentinel_stability.  One collection of `count` acquisitions;
\* img_late and img_early are its newest and oldest image.
BT_SentinelSteps == {"geometry", "size", "date", "reduce"}

BT_SentinelExcept(try, fail) ==
    SatResult("Sentinel Error", Float(0), "unset", fail, fail \notin try, "ERROR", 0, 0)

BT_SentinelInsufficient(count) == count < 2

BT_SentinelBody(try, fail, count, red) ==
    IF Raises(fail, {"geometry", "size"}) THEN BT_SentinelExcept(try, fail)
    ELSE IF BT_SentinelInsufficient(count)
         THEN SatResult("Data Gap (Sentinel-1 Blind)", Float(0), "unset",
                        NoFail, FALSE, "NO_DATA", 0, 0)
    ELSE IF Raises(fail, {"date", "reduce"}) THEN BT_SentinelExcept(try, fail)
    ELSE SatResult("Last Pass", red, "unset", NoFail, FALSE, "OK",
                   IF count >= 1 THEN 1 ELSE 0, IF count >= 1 THEN 1 ELSE 0)

\* the region reduction moved out of the try block
BT_get_sentinel_stability_NarrowTry(fail, count, red) ==
    BT_SentinelBody(BT_SentinelSteps \ {"reduce"}, fail, count, red)

BT_get_sentinel_stability(fail, count, red) ==
    BT_SentinelBody(BT_SentinelSteps, fail, count, red)

\* hill_safe: get_sentinel_stability.  current_img is the newest image of the
\* current collection, baseline_mean the mean of the baseline collection.
HS_SentinelSteps == {"geometry", "current_size", "current_date", "baseline_size", "reduce"}

HS_SentinelExcept(try, fail) ==
    SatResult("Error", Float(0), "Error", fail, fail \notin try, "ERROR", 0, 0)

HS_NoCurrent(cur) == cur = 0
\* the baseline size test left out
HS_NoBaseline_Unchecked(base) == FALSE

HS_NoBaseline(base) == base = 0

HS_SentinelBody(try, fail, cur, base, red) ==
    IF Raises(fail, {"geometry", "current_size"}) THEN HS_SentinelExcept(try, fail)
    ELSE IF HS_NoCurrent(cur)
         THEN SatResult("No recent pass", Float(0), "N/A", NoFail, FALSE, "NO_DATA", 0, 0)
    ELSE IF Raises(fail, {"current_date", "baseline_size"}) THEN HS_SentinelExcept(try, fail)
    ELSE IF HS_NoBaseline(base)
         THEN SatResult("No baseline data", Float(0), "N/A", NoFail, FALSE, "NO_DATA",
                        IF cur >= 1 THEN 1 ELSE 0, 0)
    ELSE IF Raises(fail, {"reduce"}) THEN HS_SentinelExcept(try, fail)
    ELSE SatResult("Active", red, "date", NoFail, FALSE, "OK",
                   IF cur >= 1 THEN 1 ELSE 0, base)

HS_get_sentinel_stability(fail, cur, base, red) ==
    HS_SentinelBody(HS_SentinelSteps, fail, cur, base, red)

\* backtest: get_smap_moisture
BT_SmapSteps == {"geometry", "size", "reduce"}

\* the except branch returning None for 0.0
BT_SmapExcept_None(try, fail) ==
    SatResult("SMAP Error", None, "unset", fail, fail \notin try, "ERROR", 0, 0)

BT_SmapExcept(try, fail) ==
    SatResult("SMAP Error", Float(0), "unset", fail, fail \notin try, "ERROR", 0, 0)

BT_SmapBody(try, fail, count, red) ==
    IF Raises(fail, {"geometry", "size"}) THEN BT_SmapExcept(try, fail)
    ELSE IF count = 0
         THEN SatResult("No SMAP Data", Float(0), "unset", NoFail, FALSE, "NO_DATA", 0, 0)
    ELSE IF Raises(fail, {"reduce"}) THEN BT_SmapExcept(try, fail)
    ELSE SatResult("Data Found", red, "unset", NoFail, FALSE, "OK", 0, 0)

BT_get_smap_moisture(fail, count, red) ==
    BT_SmapBody(BT_SmapSteps, fail, count, red)

\* hill_safe: get_smap_moisture
HS_SmapSteps == {"geometry", "size", "date", "reduce"}

\* the except branch returning 1.0 for 0.0
HS_SmapExcept_One(try, fail) ==
    SatResult("Error", Float(100), "Error", fail, fail \notin try, "ERROR", 0, 0)

HS_SmapExcept(try, fail) ==
    SatResult("Error", Float(0), "Error", fail, fail \notin try, "ERROR", 0, 0)

HS_SmapBody(try, fail, count, red) ==
    IF Raises(fail, {"geometry", "size"}) THEN HS_SmapExcept(try, fail)
    ELSE IF count = 0
         THEN SatResult("No recent data", Float(0), "N/A", NoFail, FALSE, "NO_DATA", 0, 0)
    ELSE IF Raises(fail, {"date", "reduce"}) THEN HS_SmapExcept(try, fail)
    ELSE SatResult("Working", red, "date", NoFail, FALSE, "OK", 0, 0)

HS_get_smap_moisture(fail, count, red) ==
    HS_SmapBody(HS_SmapSteps, fail, count, red)

-----------------------------------------------------------------------------
(* The rules and the classifier *)

\* backtest main: Rule 1 (Sentinel), Rule 2 (SMAP), Rule 3 (rain)
\* Rule 1 with >= for >
BT_Rule1_NotStrict(ss) ==
    IF IsNumber(ss) /\ ss.v >= RadarThreshold
    THEN << "Ground Shift Detected (Sentinel-1)" >> ELSE << >>

BT_Rule1(ss) ==
    IF Gt(ss, RadarThreshold) THEN << "Ground Shift Detected (Sentinel-1)" >> ELSE << >>

\* Rule 2 with the comparison turned round
BT_Rule2_Inverted(ms) ==
    IF IsInstanceFloat(ms) /\ IsNumber(ms) /\ ms.v < SoilThreshold
    THEN << "Soil Saturated" >> ELSE << >>

BT_Rule2(ms) ==
    IF IsInstanceFloat(ms) /\ Gt(ms, SoilThreshold) THEN << "Soil Saturated" >> ELSE << >>

BT_Rule3(rt) ==
    IF Gt(rt, RainThreshold) THEN << "Extreme Rainfall" >> ELSE << >>

\* the three rules as one if / elif / elif chain
BT_RiskFactors_ShortCircuit(ss, ms, rt) ==
    IF BT_Rule1(ss) # << >> THEN BT_Rule1(ss)
    ELSE IF BT_Rule2(ms) # << >> THEN BT_Rule2(ms)
    ELSE BT_Rule3(rt)

BT_RiskFactors(ss, ms, rt) == BT_Rule1(ss) \o BT_Rule2(ms) \o BT_Rule3(rt)

BT_Classify(n) ==
    IF n >= 2 THEN "RED ALERT (EVACUATE)"
    ELSE IF n = 1 THEN "YELLOW ALERT (PREPARE)"
    ELSE "GREEN"

\* hill_safe main: Factor 1 (rain forecast, two rules), Factor 2 (Sentinel),
\* Factor 3 (SMAP)
\* the second rain rule as an elif of the first
HS_RainFactors_Elif(rf, rc) ==
    IF Gt(rf, ForecastThreshold) THEN << "Heavy Rain Coming" >>
    ELSE IF Gt(rc, ChanceThreshold) THEN << "90% Chance of Storm" >>
    ELSE << >>

HS_RainFactors(rf, rc) ==
    (IF Gt(rf, ForecastThreshold) THEN << "Heavy Rain Coming" >> ELSE << >>)
    \o (IF Gt(rc, ChanceThreshold) THEN << "90% Chance of Storm" >> ELSE << >>)

HS_SentinelFactor(ss) ==
    IF Gt(ss, RadarThreshold) THEN << "Hill Surface Changed (Radar)" >> ELSE << >>

HS_SmapFactor(ms) ==
    IF IsInstanceFloat(ms) /\ Gt(ms, SoilThreshold) THEN << "Soil Too Wet" >> ELSE << >>

HS_RiskFactors(rf, rc, ss, ms) ==
    HS_RainFactors(rf, rc) \o HS_SentinelFactor(ss) \o HS_SmapFactor(ms)

\* the last branch with == 2 for >= 2
HS_Classify_Eq2(n) ==
    IF n = 1 THEN "BE CAREFUL"
    ELSE IF n = 2 THEN "DANGER - LEAVE NOW"
    ELSE "SAFE"

HS_Classify(n) ==
    IF n = 1 THEN "BE CAREFUL"
    ELSE IF n >= 2 THEN "DANGER - LEAVE NOW"
    ELSE "SAFE"

-----------------------------------------------------------------------------
(* State *)

\* the history of one adapter call; status is the status component of the
\* returned tuple, "absent" when the tuple has none
NotCalled ==
    [called |-> FALSE, raised |-> NoFail, escaped |-> FALSE, outcome |-> "none",
     status |-> "absent", recent |-> 0, baseline |-> 0, sizes |-> << 0, 0 >>,
     reduced |-> Unset]

Called(r) ==
    [called |-> TRUE, raised |-> r.raised, escaped |-> r.escaped, outcome |-> r.outcome,
     status |-> IF "status" \in DOMAIN r THEN r.status ELSE "absent",
     recent |-> IF "recent" \in DOMAIN r THEN r.recent ELSE 0,
     baseline |-> IF "baseline" \in DOMAIN r THEN r.baseline ELSE 0,
     sizes |-> IF "sizes" \in DOMAIN r THEN r.sizes ELSE << 0, 0 >>,
     reduced |-> IF "reduced" \in DOMAIN r THEN r.reduced ELSE Unset]

Init ==
    /\ prog \in Programs
    /\ pc = "start"
    /\ crash = "none"
    /\ connected = "unset"
    /\ st_errors = {}
    /\ rain_total = Unset /\ rain_peak = Unset /\ rain_df = "unset"
    /\ sentinel_status = "unset" /\ sentinel_score = Unset /\ sentinel_date = "unset"
    /\ smap_status = "unset" /\ smap_score = Unset /\ smap_date = "unset"
    /\ risk_factors = << >>
    /\ risk_level = "unset"
    /\ rendered = {}
    /\ trace = [s \in Sources |-> NotCalled]

\* the step of main() that follows, or the crash an escaping exception causes
Goto(next) == pc' = next /\ crash' = crash
Crash(exc) == pc' = "crashed" /\ crash' = exc

\* an Earth Engine call on a session that was never initialized raises at once
EEFails(fail) == connected = "False" => fail = "geometry"

-----------------------------------------------------------------------------
(* The adapter calls of main(), shared shape *)

StoreRain(r, next) ==
    /\ trace' = [trace EXCEPT !["rain"] = Called(r)]
    /\ st_errors' = IF r.reported THEN st_errors \cup {"rain"} ELSE st_errors
    /\ IF r.escaped
       THEN /\ Crash("Exception")
            /\ UNCHANGED << rain_total, rain_peak, rain_df >>
       ELSE /\ Goto(next)
            /\ rain_total' = r.total
            /\ rain_peak' = r.peak
            /\ rain_df' = r.df
    /\ UNCHANGED << prog, connected, sentinel_status, sentinel_score, sentinel_date,
                    smap_status, smap_score, smap_date, risk_factors, risk_level, rendered >>

StoreSentinel(r, next) ==
    /\ trace' = [trace EXCEPT !["sentinel"] = Called(r)]
    /\ IF r.escaped
       THEN /\ Crash("Exception")
            /\ UNCHANGED << sentinel_status, sentinel_score, sentinel_date >>
       ELSE /\ Goto(next)
            /\ sentinel_status' = r.status
            /\ sentinel_score' = r.score
            /\ sentinel_date' = r.date
    /\ UNCHANGED << prog, connected, st_errors, rain_total, rain_peak, rain_df,
                    smap_status, smap_score, smap_date, risk_factors, risk_level, rendered >>

StoreSmap(r, next) ==
    /\ trace' = [trace EXCEPT !["smap"] = Called(r)]
    /\ IF r.escaped
       THEN /\ Crash("Exception")
            /\ UNCHANGED << smap_status, smap_score, smap_date >>
       ELSE /\ Goto(next)
            /\ smap_status' = r.status
            /\ smap_score' = r.score
            /\ smap_date' = r.date
    /\ UNCHANGED << prog, connected, st_errors, rain_total, rain_peak, rain_df,
                    sentinel_status, sentinel_score, sentinel_date,
                    risk_factors, risk_level, rendered >>

-----------------------------------------------------------------------------
(* backtest_wayanad.py: main() *)

Fetched == << rain_total, rain_peak, rain_df, sentinel_status, sentinel_score, sentinel_date,
              smap_status, smap_score, smap_date >>

\* initialize_earth_engine() is called and its result dropped
BT_Initialize ==
    /\ prog = "backtest" /\ pc = "start"
    /\ \E i1 \in BOOLEAN, auth \in BOOLEAN, i2 \in BOOLEAN :
         LET r == initialize_earth_engine(i1, auth, i2) IN
           /\ connected' = IF r.ok THEN "True" ELSE "False"
           /\ st_errors' = IF r.reported THEN st_errors \cup {"auth"} ELSE st_errors
    /\ Goto("rain")
    /\ UNCHANGED << prog, Fetched, risk_factors, risk_level, rendered, trace >>

BT_FetchRain ==
    /\ prog = "backtest" /\ pc = "rain"
    /\ \E fail \in BT_RainSteps \cup {NoFail}, series \in {"empty", "rows"},
          total \in RainTotals, peak \in RainPeaks :
         StoreRain(get_historical_rain(fail, series, total, peak), "sentinel")

BT_FetchSentinel ==
    /\ prog = "backtest" /\ pc = "sentinel"
    /\ \E fail \in BT_SentinelSteps \cup {NoFail}, count \in Counts, red \in RadarReductions :
         /\ EEFails(fail)
         /\ StoreSentinel(World(BT_get_sentinel_stability(fail, count, red), << count, count >>, red),
                          "smap")

BT_FetchSmap ==
    /\ prog = "backtest" /\ pc = "smap"
    /\ \E fail \in BT_SmapSteps \cup {NoFail}, count \in Counts, red \in SoilReductions :
         /\ EEFails(fail)
         /\ StoreSmap(World(BT_get_smap_moisture(fail, count, red), << count, count >>, red), "metrics")

\* col1.metric .. col3.metric: the three f-strings format the values unguarded
BT_Metrics ==
    /\ prog = "backtest" /\ pc = "metrics"
    /\ IF FormatRaises(rain_total) \/ FormatRaises(sentinel_score) \/ FormatRaises(smap_score)
       THEN Crash("TypeError") /\ rendered' = rendered
       ELSE Goto("rules") /\ rendered' = rendered \cup {"metrics"}
    /\ UNCHANGED << prog, connected, st_errors, Fetched, risk_factors, risk_level, trace >>

BT_Rules ==
    /\ prog = "backtest" /\ pc = "rules"
    /\ IF GtRaises(sentinel_score)
       THEN Crash("TypeError") /\ risk_factors' = << >>
       ELSE IF GtRaises(rain_total)
       THEN Crash("TypeError")
            /\ risk_factors' = BT_Rule1(sentinel_score) \o BT_Rule2(smap_score)
       ELSE Goto("classify")
            /\ risk_factors' = BT_RiskFactors(sentinel_score, smap_score, rain_total)
    /\ UNCHANGED << prog, connected, st_errors, Fetched, risk_level, rendered, trace >>

BT_ClassifyStep ==
    /\ prog = "backtest" /\ pc = "classify"
    /\ risk_level' = BT_Classify(Len(risk_factors))
    /\ Goto("status")
    /\ UNCHANGED << prog, connected, st_errors, Fetched, risk_factors, rendered, trace >>

\* st.success / st.warning + factors / st.error + triggers
BT_StatusText(level) ==
    IF level = "GREEN" THEN "STATUS: SAFE"
    ELSE IF level = "YELLOW ALERT (PREPARE)" THEN "STATUS: YELLOW ALERT (PREPARE)"
    ELSE "STATUS: RED ALERT (EVACUATE)"

BT_RenderStatus ==
    /\ prog = "backtest" /\ pc = "status"
    /\ rendered' = rendered \cup {BT_StatusText(risk_level)}
                   \cup (IF risk_level = "GREEN" THEN {} ELSE {"factors"})
    /\ Goto("chart")
    /\ UNCHANGED << prog, connected, st_errors, Fetched, risk_factors, risk_level, trace >>

\* rain_df.set_index('time')['rain']: KeyError on a frame without columns
SetIndexRaises(df) == df = "no_columns"

BT_Chart ==
    /\ prog = "backtest" /\ pc = "chart"
    /\ IF SetIndexRaises(rain_df)
       THEN Crash("KeyError") /\ rendered' = rendered
       ELSE Goto("details") /\ rendered' = rendered \cup {"chart"}
    /\ UNCHANGED << prog, connected, st_errors, Fetched, risk_factors, risk_level, trace >>

BT_Details ==
    /\ prog = "backtest" /\ pc = "details"
    /\ rendered' = rendered \cup {"sentinel_status", "smap_status"}
    /\ Goto("done")
    /\ UNCHANGED << prog, connected, st_errors, Fetched, risk_factors, risk_level, trace >>

-----------------------------------------------------------------------------
(* hill_safe.py: main() *)

\* connected = initialize_earth_engine(); if not connected: st.warning; return
HS_Initialize ==
    /\ prog = "hill_safe" /\ pc = "start"
    /\ \E i1 \in BOOLEAN, auth \in BOOLEAN, i2 \in BOOLEAN :
         LET r == initialize_earth_engine(i1, auth, i2) IN
           /\ connected' = IF r.ok THEN "True" ELSE "False"
           /\ st_errors' = IF r.reported THEN st_errors \cup {"auth"} ELSE st_errors
           /\ IF r.ok
              THEN Goto("rain") /\ rendered' = rendered
              ELSE Goto("returned") /\ rendered' = rendered \cup {"connecting_warning"}
    /\ UNCHANGED << prog, Fetched, risk_factors, risk_level, trace >>

HS_FetchRain ==
    /\ prog = "hill_safe" /\ pc = "rain"
    /\ \E fail \in HS_RainSteps \cup {NoFail}, series \in {"empty", "rows"},
          total \in RainTotals, chance \in RainChances :
         StoreRain(get_rainfall_data(fail, series, total, chance), "sentinel")

HS_FetchSentinel ==
    /\ prog = "hill_safe" /\ pc = "sentinel"
    /\ \E fail \in HS_SentinelSteps \cup {NoFail}, cur \in Counts, base \in Counts,
          red \in RadarReductions :
         /\ EEFails(fail)
         /\ StoreSentinel(World(HS_get_sentinel_stability(fail, cur, base, red), << cur, base >>, red),
                          "smap")

HS_FetchSmap ==
    /\ prog = "hill_safe" /\ pc = "smap"
    /\ \E fail \in HS_SmapSteps \cup {NoFail}, count \in Counts, red \in SoilReductions :
         /\ EEFails(fail)
         /\ StoreSmap(World(HS_get_smap_moisture(fail, count, red), << count, count >>, red), "rules")

\* the four ifs in order; a comparison that raises leaves the factors appended so far
HS_Rules ==
    /\ prog = "hill_safe" /\ pc = "rules"
    /\ IF GtRaises(rain_total) \/ GtRaises(rain_peak)
       THEN Crash("TypeError") /\ risk_factors' = << >>
       ELSE IF GtRaises(sentinel_score)
       THEN Crash("TypeError") /\ risk_factors' = HS_RainFactors(rain_total, rain_peak)
       ELSE Goto("classify")
            /\ risk_factors' = HS_RiskFactors(rain_total, rain_peak, sentinel_score, smap_score)
    /\ UNCHANGED << prog, connected, st_errors, Fetched, risk_level, rendered, trace >>

HS_ClassifyStep ==
    /\ prog = "hill_safe" /\ pc = "classify"
    /\ risk_level' = HS_Classify(Len(risk_factors))
    /\ Goto("metrics")
    /\ UNCHANGED << prog, connected, st_errors, Fetched, risk_factors, rendered, trace >>

\* the metrics format each value only if it is not None
HS_Metrics ==
    /\ prog = "hill_safe" /\ pc = "metrics"
    /\ rendered' = rendered \cup {"metrics", risk_level}
                   \cup (IF risk_factors # << >> THEN {"factors"} ELSE {})
    /\ Goto("chart")
    /\ UNCHANGED << prog, connected, st_errors, Fetched, risk_factors, risk_level, trace >>

\* if not rain_df.empty: st.line_chart(...)
HS_Charts ==
    /\ prog = "hill_safe" /\ pc = "chart"
    /\ rendered' = rendered \cup (IF rain_df = "rows" THEN {"chart"} ELSE {}) \cup {"map"}
    /\ Goto("sources")
    /\ UNCHANGED << prog, connected, st_errors, Fetched, risk_factors, risk_level, trace >>

\* the weather column always writes "Status: Working"
HS_Sources ==
    /\ prog = "hill_safe" /\ pc = "sources"
    /\ rendered' = rendered \cup {"sentinel_status", "smap_status", "weather_status_working"}
    /\ Goto("done")
    /\ UNCHANGED << prog, connected, st_errors, Fetched, risk_factors, risk_level, trace >>

-----------------------------------------------------------------------------

Next ==
    \/ BT_Initialize \/ BT_FetchRain \/ BT_FetchSentinel \/ BT_FetchSmap
    \/ BT_Metrics \/ BT_Rules \/ BT_ClassifyStep \/ BT_RenderStatus \/ BT_Chart \/ BT_Details
    \/ HS_Initialize \/ HS_FetchRain \/ HS_FetchSentinel \/ HS_FetchSmap
    \/ HS_Rules \/ HS_ClassifyStep \/ HS_Metrics \/ HS_Charts \/ HS_Sources

Spec == Init /\ [][Next]_vars

-----------------------------------------------------------------------------
(* Vocabulary of the properties *)

Classified == risk_level # "unset"
RulesDone == pc \in {"classify", "status", "metrics", "chart", "details", "sources", "done"}
              /\ (prog = "backtest" => pc # "metrics")
Ended == pc \in {"done", "crashed", "returned"}

\* the ordinal of a level label: SAFE 0, WATCH 1, CRITICAL 2
Tier(level) ==
    CASE level \in {"GREEN", "SAFE"} -> 0
      [] level \in {"YELLOW ALERT (PREPARE)", "BE CAREFUL"} -> 1
      [] level \in {"RED ALERT (EVACUATE)", "DANGER - LEAVE NOW"} -> 2
      [] OTHER -> -1

\* the source a factor is attributed to
FactorSource(f) ==
    CASE f \in {"Extreme Rainfall", "Heavy Rain Coming", "90% Chance of Storm"} -> "rain"
      [] f \in {"Ground Shift Detected (Sentinel-1)", "Hill Surface Changed (Radar)"} -> "sentinel"
      [] f \in {"Soil Saturated", "Soil Too Wet"} -> "smap"

Factors == {risk_factors[i] : i \in 1..Len(risk_factors)}
FactorSources == {FactorSource(f) : f \in Factors}
FactorsOf(s) == {f \in Factors : FactorSource(f) = s}

ErrorStatuses == {"Sentinel Error", "SMAP Error", "Error"}
OkStatuses == {"Last Pass", "Data Found", "Active", "Working"}
Satellites == {"sentinel", "smap"}
Score(s) == IF s = "sentinel" THEN sentinel_score ELSE smap_score
Returned(s) == trace[s].called /\ ~trace[s].escaped

-----------------------------------------------------------------------------
(* C1: in both programs the level is a function of the number n of triggered *)
(* factors alone: n = 0 gives SAFE, n = 1 gives WATCH, n >= 2 gives CRITICAL, *)
(* the same mapping in both, never decreasing in n.                          *)
C1_LevelByCount ==
    Classified =>
        Tier(risk_level) = (IF Len(risk_factors) = 0 THEN 0
                            ELSE IF Len(risk_factors) = 1 THEN 1 ELSE 2)

C1_Witness == Classified /\ Len(risk_factors) >= 3

(* C2: a source whose adapter ended in a non-OK outcome (error, no data,     *)
(* data gap) contributes no factor to the factor list, in both programs.     *)
C2_NoFactorFromFailedSource ==
    \A s \in Sources :
        (trace[s].called /\ trace[s].outcome # "OK") => FactorsOf(s) = {}

C2_Witness ==
    /\ RulesDone
    /\ trace["smap"].outcome = "ERROR"
    /\ trace["sentinel"].outcome = "NO_DATA"
    /\ Factors # {}

(* C3: whatever the outcomes of the three sources (OK with a number, no data *)
(* or error, each independently), main() runs through classification and     *)
(* rendering to its end without an unhandled exception.                      *)
C3_NoUnhandledException ==
    (\A s \in Satellites : ~IsNone(Score(s))) => pc # "crashed"

(* C4, as claimed: no exception escapes an adapter, and every adapter in     *)
(* which a step raised returns a status that carries the error diagnostic.   *)
C4_EveryAdapterReturnsErrorStatus ==
    \A s \in Sources :
        (trace[s].called /\ trace[s].raised # NoFail) =>
            (~trace[s].escaped /\ trace[s].status \in ErrorStatuses)

(* C4, amended: no exception escapes an adapter; the radar and soil adapters *)
(* return an error status, the rain adapters return no status at all: they   *)
(* report through st.error and return 0, 0 and a frame without columns.      *)
C4_AdaptersAbsorbExceptions ==
    /\ crash # "Exception"
    /\ \A s \in Sources :
        (trace[s].called /\ trace[s].raised # NoFail) =>
            /\ ~trace[s].escaped
            /\ trace[s].outcome = "ERROR"
            /\ s \in Satellites => trace[s].status \in ErrorStatuses
            /\ s = "rain" => /\ trace[s].status = "absent"
                             /\ "rain" \in st_errors
                             /\ rain_total = PyInt(0) /\ rain_peak = PyInt(0)
                             /\ rain_df = "no_columns"

C4_Witness ==
    /\ trace["rain"].raised = "json"
    /\ trace["sentinel"].raised = "reduce"
    /\ trace["smap"].raised = "size"

(* C5: when initialize_earth_engine returns False, no adapter is invoked and *)
(* no risk level is computed in that run.                                    *)
C5_InitFailurePreventsAssessment ==
    connected = "False" =>
        /\ \A s \in Sources : ~trace[s].called
        /\ risk_level = "unset"

(* C6: when all three adapters fail in one run, the rules and the classifier *)
(* are still evaluated, the factor list is empty and the level is SAFE.      *)
AllFailed == \A s \in Sources : Returned(s) /\ trace[s].outcome # "OK"

C6_AllFailedIsSafe ==
    (AllFailed /\ Ended) =>
        /\ Classified
        /\ risk_factors = << >>
        /\ Tier(risk_level) = 0

C6_Witness ==
    /\ \A s \in Sources : Returned(s) /\ trace[s].outcome = "ERROR"
    /\ Ended
    /\ Classified

(* C7: in hill_safe the heavy-rain factor and the storm-probability factor   *)
(* trigger independently, each exactly on its own condition, so rain alone   *)
(* can give two factors; in backtest rain gives at most one factor, so       *)
(* CRITICAL there has factors of at least two sources.                       *)
C7_RainFactorsPerMode ==
    RulesDone =>
        /\ prog = "hill_safe" =>
              /\ "Heavy Rain Coming" \in Factors <=> Gt(rain_total, ForecastThreshold)
              /\ "90% Chance of Storm" \in Factors <=> Gt(rain_peak, ChanceThreshold)
        /\ prog = "backtest" =>
              /\ Cardinality(FactorsOf("rain")) <= 1
              /\ (Classified /\ Tier(risk_level) = 2) => Cardinality(FactorSources) >= 2

C7_Witness ==
    /\ prog = "hill_safe"
    /\ risk_factors = << "Heavy Rain Coming", "90% Chance of Storm" >>
    /\ Tier(risk_level) = 2

(* C8: the radar and soil thresholds are strict in both programs: an OK      *)
(* radar value of exactly 2.0 and an OK soil value of exactly 0.4 trigger    *)
(* nothing, and every OK value above its threshold triggers its factor.      *)
C8_StrictThresholds ==
    RulesDone =>
        /\ (trace["sentinel"].outcome = "OK" /\ IsNumber(sentinel_score)) =>
              (FactorsOf("sentinel") # {} <=> sentinel_score.v > RadarThreshold)
        /\ (trace["smap"].outcome = "OK" /\ IsNumber(smap_score)) =>
              (FactorsOf("smap") # {} <=> smap_score.v > SoilThreshold)

C8_Witness ==
    /\ RulesDone
    /\ trace["sentinel"].outcome = "OK" /\ sentinel_score = Float(RadarThreshold)
    /\ trace["smap"].outcome = "OK" /\ smap_score = Float(SoilThreshold)

(* C9: the radar adapter never returns an OK result when the recent or the   *)
(* baseline composite would be built from zero acquisitions: it returns its  *)
(* no-data result unless a step raised before; every OK result was computed  *)
(* from a non-empty recent image and a non-empty baseline.                   *)
C9_RadarNeedsBothComposites ==
    Returned("sentinel") =>
        /\ (trace["sentinel"].sizes[1] = 0 \/ trace["sentinel"].sizes[2] = 0) =>
              /\ trace["sentinel"].outcome # "OK"
              /\ trace["sentinel"].raised = NoFail => trace["sentinel"].outcome = "NO_DATA"
        /\ trace["sentinel"].outcome = "OK" =>
              /\ trace["sentinel"].recent >= 1
              /\ trace["sentinel"].baseline >= 1

C9_Witness ==
    /\ prog = "hill_safe"
    /\ Returned("sentinel")
    /\ trace["sentinel"].sizes = << 1, 0 >>
    /\ sentinel_status = "No baseline data"

(* C10, as claimed: the value of a returned sample is non-null if and only   *)
(* if its status is OK.                                                      *)
C10_ValueIffOk ==
    \A s \in Satellites :
        Returned(s) => (~IsNone(Score(s)) <=> trace[s].status \in OkStatuses)

(* C10, amended: a sample with an error or no-data status carries the number *)
(* 0.0 (the rain adapters: 0), never null; a sample with an OK status        *)
(* carries what the region reduction yielded, which is null when the         *)
(* reduction yields no value.                                                *)
C10_ZeroUnlessOk ==
    /\ \A s \in Satellites :
          Returned(s) =>
              /\ trace[s].status \in OkStatuses <=> trace[s].outcome = "OK"
              /\ trace[s].outcome # "OK" => Score(s) = Float(0)
              /\ trace[s].outcome = "OK" => Score(s) = trace[s].reduced
    /\ Returned("rain") =>
          /\ IsNumber(rain_total)
          /\ trace["rain"].outcome # "OK" => rain_total.v = 0

C10_Witness ==
    /\ Returned("sentinel") /\ sentinel_status = "Active" /\ IsNone(sentinel_score)
    /\ Returned("smap") /\ smap_status = "Working" /\ IsNone(smap_score)

\* the place of a factor in the rule-evaluation order of its program
RuleRank(f) ==
    CASE f \in {"Ground Shift Detected (Sentinel-1)", "Heavy Rain Coming"} -> 1
      [] f \in {"Soil Saturated", "90% Chance of Storm"} -> 2
      [] f \in {"Extreme Rainfall", "Hill Surface Changed (Radar)"} -> 3
      [] f = "Soil Too Wet" -> 4

InRuleOrder ==
    \A i \in 1..Len(risk_factors) : \A j \in 1..Len(risk_factors) :
        i < j => RuleRank(risk_factors[i]) < RuleRank(risk_factors[j])

AllOk == \A s \in Sources : Returned(s) /\ trace[s].outcome = "OK"

(* C11: the rules are evaluated independently, without short-circuit: once   *)
(* the rules have run, the factor list holds a rule's factor exactly when    *)
(* that rule's own condition holds, whatever the other rules did, and in the *)
(* fixed order of evaluation (backtest: ground shift, soil saturated,        *)
(* extreme rainfall).  So rain 210 / radar 0.5 / soil 0.2 gives exactly      *)
(* [extreme rainfall] and rain 50 / radar 3.1 / soil 0.55 gives exactly      *)
(* [ground shift, soil saturated].                                           *)
C11_RulesIndependentInOrder ==
    RulesDone =>
        /\ InRuleOrder
        /\ prog = "backtest" =>
              /\ "Ground Shift Detected (Sentinel-1)" \in Factors
                     <=> (IsNumber(sentinel_score) /\ sentinel_score.v > RadarThreshold)
              /\ "Soil Saturated" \in Factors
                     <=> (IsNumber(smap_score) /\ smap_score.v > SoilThreshold)
              /\ "Extreme Rainfall" \in Factors
                     <=> (IsNumber(rain_total) /\ rain_total.v > RainThreshold)
              /\ (AllOk /\ rain_total = Float(210) /\ sentinel_score = Float(50)
                        /\ smap_score = Float(20))
                     => risk_factors = << "Extreme Rainfall" >>
              /\ (AllOk /\ rain_total = Float(50) /\ sentinel_score = Float(310)
                        /\ smap_score = Float(55))
                     => risk_factors = << "Ground Shift Detected (Sentinel-1)",
                                          "Soil Saturated" >>
        /\ prog = "hill_safe" =>
              /\ "Heavy Rain Coming" \in Factors
                     <=> (IsNumber(rain_total) /\ rain_total.v > ForecastThreshold)
              /\ "90% Chance of Storm" \in Factors
                     <=> (IsNumber(rain_peak) /\ rain_peak.v > ChanceThreshold)
              /\ "Hill Surface Changed (Radar)" \in Factors
                     <=> (IsNumber(sentinel_score) /\ sentinel_score.v > RadarThreshold)
              /\ "Soil Too Wet" \in Factors
                     <=> (IsNumber(smap_score) /\ smap_score.v > SoilThreshold)

C11_Witness ==
    /\ prog = "backtest" /\ RulesDone /\ AllOk
    /\ rain_total = Float(50) /\ sentinel_score = Float(310) /\ smap_score = Float(55)
    /\ risk_factors = << "Ground Shift Detected (Sentinel-1)", "Soil Saturated" >>

====
